---- MODULE Spec2Model ----
(***************************************************************************)
(* A model of the user service of src/main.py: the in-memory store         *)
(* users_db and the handlers create_user, get_users, delete_user and       *)
(* upload_users_csv.  Every handler is an operator from the state before   *)
(* and the request to the state after and the response; the actions apply  *)
(* these operators to every request of a bounded set.                      *)
(***************************************************************************)
EXTENDS Integers, Sequences, FiniteSets, TLC

VARIABLES users_db, issued, resp, reading

vars == <<users_db, issued, resp, reading>>

(***************************************************************************)
(* Bounds of the model.                                                    *)
(***************************************************************************)
\* The number of ids uuid4 hands out in one behaviour.
MaxIds == 3
\* The number of data rows of an uploaded CSV file.
MaxRows == 2

\* Names a create request carries: two that differ in case only.
Names == {"a", "A"}
\* Ages a create request carries.
Ages == {1, 2}
\* The ids a delete request names: those uuid4 can hand out here.
UserIds == 1..MaxIds

(***************************************************************************)
(* Values of a DataFrame cell, as row['Name'] and row['Age'] yield them:   *)
(* a str, a numpy int64, a numpy float64 (kept in tenths: 25 is 2.5) or    *)
(* NaN, which is what pandas makes of an empty cell.                       *)
(***************************************************************************)
StrCell(s) == [t |-> "str", s |-> s, n |-> 0]
IntCell(n) == [t |-> "int", s |-> "", n |-> n]
FloatCell(tenths) == [t |-> "float", s |-> "", n |-> tenths]
NaN == [t |-> "nan", s |-> "", n |-> 0]

\* int(x) after a fillna(0): a missing age counts as 0.
PyInt_fillna(cell) ==
  CASE cell.t = "int" -> [ok |-> TRUE, v |-> cell.n]
    [] cell.t = "float" -> [ok |-> TRUE, v |-> cell.n \div 10]
    [] OTHER -> [ok |-> TRUE, v |-> 0]

\* Python's int(x) at src/main.py:77: [ok, v]; ok is FALSE where it raises.
PyInt(cell) ==
  CASE cell.t = "int" -> [ok |-> TRUE, v |-> cell.n]
    [] cell.t = "float" -> [ok |-> TRUE, v |-> cell.n \div 10]
    [] cell.t = "nan" -> [ok |-> FALSE, v |-> 0]
    [] OTHER -> IF cell.s = "1" THEN [ok |-> TRUE, v |-> 1]
                ELSE IF cell.s = "2" THEN [ok |-> TRUE, v |-> 2]
                ELSE [ok |-> FALSE, v |-> 0]

\* Python's str(x) at src/main.py:92.
PyStr(cell) ==
  CASE cell.t = "str" -> cell.s
    [] cell.t = "nan" -> "nan"
    [] cell.t = "int" -> ToString(cell.n)
    [] OTHER -> ToString(cell.n \div 10) \o "." \o ToString(cell.n % 10)

(***************************************************************************)
(* The store: users_db is a Python dict from id to the record's dict.  A   *)
(* dict keeps its keys in insertion order, so it is a sequence of records  *)
(* [id, name, age] with pairwise different ids.                            *)
(***************************************************************************)
Range(seq) == {seq[k] : k \in 1..Len(seq)}

\* users_db.keys()
ids(db) == {db[k].id : k \in 1..Len(db)}

\* The names of users_db.values()
names(db) == {db[k].name : k \in 1..Len(db)}

\* users_db[rec.id] = rec: a new key goes to the end, a key the dict holds
\* keeps its place and gets the new value.
put(db, rec) ==
  IF rec.id \in ids(db)
  THEN [k \in 1..Len(db) |-> IF db[k].id = rec.id THEN rec ELSE db[k]]
  ELSE Append(db, rec)

\* del that drops the oldest record, whatever the key.
del_oldest(db, user_id) == Tail(db)

\* del users_db[user_id]
del(db, user_id) == SelectSeq(db, LAMBDA r : r.id # user_id)

\* contains_name without the scan: no name is ever found.
contains_name_unchecked(db, name) == FALSE

\* any(u['name'] == name for u in users_db.values())
contains_name(db, name) == \E k \in 1..Len(db) : db[k].name = name

\* uuid4 called once, as Field(default=str(uuid.uuid4())) would: one id for
\* every record.
uuid4_default(n) == 1

\* str(uuid.uuid4()), the default of User.id: a value no earlier call
\* returned.  The ids are numbered in the order they reach the store, and
\* n is the number handed out so far; an id that create_user generates and
\* drops with the duplicate error was never visible and is not counted.
uuid4(n) == n + 1

\* User(**user_in.model_dump()).model_dump()
User(id, name, age) == [id |-> id, name |-> name, age |-> age]

(***************************************************************************)
(* Responses.  An HTTPException is its status code and its detail.         *)
(***************************************************************************)
HTTPException(status, detail) ==
  [kind |-> "error", status |-> status, detail |-> detail]

DuplicateName(name) ==
  HTTPException(400, "User with name '" \o name \o "' already exists")

NotFound == HTTPException(404, "User not found")

InvalidFileType ==
  HTTPException(400, "Invalid file type. Please upload a CSV file.")

\* The detail ends with the text of the exception, which is left out.
InputMalformed == HTTPException(400, "Error processing CSV file")

SchemaMismatch ==
  HTTPException(400, "CSV must contain 'Name' and 'Age' columns.")

\* What a handler leaves behind: the store, the ids handed out, the response.
Outcome(db, n, response) == [db |-> db, issued |-> n, resp |-> response]

(***************************************************************************)
(* POST /users                                                             *)
(***************************************************************************)
\* create_user telling a duplicate by name and age together.
create_user_same_age(db, n, name, age) ==
  LET new_user == User(uuid4(n), name, age)
  IN  IF \E k \in 1..Len(db) : db[k].name = name /\ db[k].age = age
      THEN Outcome(db, n, DuplicateName(new_user.name))
      ELSE Outcome(put(db, new_user), new_user.id,
                   [kind |-> "user", status |-> 201, user |-> new_user])

\* create_user writing the new age over the record of a stored name.
create_user_upsert(db, n, name, age) ==
  IF contains_name(db, name)
  THEN LET k == CHOOSE k \in 1..Len(db) : db[k].name = name
           user == User(db[k].id, name, age)
       IN  Outcome([db EXCEPT ![k] = user], n,
                   [kind |-> "user", status |-> 201, user |-> user])
  ELSE Outcome(put(db, User(uuid4(n), name, age)), uuid4(n),
               [kind |-> "user", status |-> 201,
                user |-> User(uuid4(n), name, age)])

create_user(db, n, name, age) ==
  LET new_user == User(uuid4(n), name, age)
  IN  IF contains_name(db, new_user.name)
      THEN Outcome(db, n, DuplicateName(new_user.name))
      ELSE Outcome(put(db, new_user), new_user.id,
                   [kind |-> "user", status |-> 201, user |-> new_user])

(***************************************************************************)
(* GET /users                                                              *)
(***************************************************************************)
get_users(db, n) ==
  Outcome(db, n, [kind |-> "users", status |-> 200, users |-> db])

(***************************************************************************)
(* DELETE /users/{user_id}                                                 *)
(***************************************************************************)
\* delete_user answering 204 for an id the store does not hold.
delete_user_silent(db, n, user_id) ==
  Outcome(del(db, user_id), n, [kind |-> "none", status |-> 204])

delete_user(db, n, user_id) ==
  IF user_id \notin ids(db)
  THEN Outcome(db, n, NotFound)
  ELSE Outcome(del(db, user_id), n, [kind |-> "none", status |-> 204])

(***************************************************************************)
(* POST /users/upload_csv                                                  *)
(*                                                                         *)
(* An uploaded file is its declared content type and its contents: bytes   *)
(* that contents.decode('utf-8') or pd.read_csv rejects (decodes = FALSE), *)
(* or the DataFrame read_csv returns, a tuple of column names and the data *)
(* rows, each a tuple with one cell per column.                            *)
(***************************************************************************)
Undecodable == [decodes |-> FALSE, columns |-> <<>>, rows |-> <<>>]

DataFrame(columns, rows) ==
  [decodes |-> TRUE, columns |-> columns, rows |-> rows]

UploadFile(content_type, contents) ==
  [content_type |-> content_type, contents |-> contents]

\* row[column]: the cell of the row under the column of that name.
Cell(columns, row, column) ==
  row[CHOOSE k \in 1..Len(columns) : columns[k] = column]

\* HasNameAndAge with "or" for "and": one of the two columns is enough.
HasNameOrAge(columns) == {"Name", "Age"} \cap Range(columns) # {}

\* {'Name', 'Age'}.issubset(df.columns)
HasNameAndAge(columns) == {"Name", "Age"} \subseteq Range(columns)

\* The counters and the store while the rows are processed.
Loop(db, n) ==
  [db |-> db, issued |-> n, added_count |-> 0, skipped_count |-> 0,
   skipped_names |-> <<>>]

\* skip that lists the name and does not count the row.
skip_uncounted(st, name) ==
  [st EXCEPT !.skipped_names = Append(@, name)]

\* skip that puts the name in front of the list.
skip_in_front(st, name) ==
  [st EXCEPT !.skipped_count = @ + 1, !.skipped_names = <<name>> \o @]

\* skipped_count += 1; skipped_names.append(name)
skip(st, name) ==
  [st EXCEPT !.skipped_count = @ + 1, !.skipped_names = Append(@, name)]

\* new_user = User(**user_data.model_dump()); users_db[new_user.id] = ...;
\* added_count += 1
add(st, name, age) ==
  LET new_user == User(uuid4(st.issued), name, age)
  IN  [st EXCEPT !.db = put(@, new_user),
                 !.issued = new_user.id,
                 !.added_count = @ + 1]

\* The row as the try block sees it: ok is FALSE where row['Name'],
\* int(row['Age']) or UserCreate raises (a column that is missing, an age
\* that is NaN or no number, a name that is not a str).
user_data(columns, row) ==
  IF ~{"Name", "Age"} \subseteq Range(columns)
  THEN [ok |-> FALSE, name |-> "", age |-> 0]
  ELSE LET age == PyInt(Cell(columns, row, "Age"))
           Name == Cell(columns, row, "Name")
       IN  [ok |-> age.ok /\ Name.t = "str", name |-> Name.s, age |-> age.v]

\* str(row.get('Name', 'N/A'))
raw_name(columns, row) ==
  IF "Name" \in Range(columns) THEN PyStr(Cell(columns, row, "Name"))
  ELSE "N/A"

\* iterrow that, for a name the store holds, writes the row's age into the
\* stored record (an import that updates).
iterrow_upsert(st, columns, row) ==
  LET data == user_data(columns, row)
      old == CHOOSE r \in Range(st.db) : r.name = data.name
  IN  IF data.ok
      THEN IF contains_name(st.db, data.name)
           THEN skip([st EXCEPT !.db = put(@, User(old.id, old.name, data.age))],
                     data.name)
           ELSE add(st, data.name, data.age)
      ELSE skip(st, raw_name(columns, row))

\* iterrow that looks for the name among the records the store held before
\* the import only (those not added by this loop).
iterrow_snapshot(st, columns, row) ==
  LET data == user_data(columns, row)
      before == SelectSeq(st.db,
                          LAMBDA r : r.id <= st.issued - st.added_count)
  IN  IF data.ok
      THEN IF contains_name(before, data.name)
           THEN skip(st, data.name)
           ELSE add(st, data.name, data.age)
      ELSE skip(st, raw_name(columns, row))

\* The body of the for loop, src/main.py:75-92, on one row: a row that
\* raises lands in the except clause and is skipped under its raw name; a
\* row whose name the store holds is skipped; any other row is added.
iterrow(st, columns, row) ==
  LET data == user_data(columns, row)
  IN  IF data.ok
      THEN IF contains_name(st.db, data.name)
           THEN skip(st, data.name)
           ELSE add(st, data.name, data.age)
      ELSE skip(st, raw_name(columns, row))

\* for _, row in df.iterrows(): the rows from the k-th on, in order.
RECURSIVE iterrows(_, _, _, _)
iterrows(st, columns, rows, k) ==
  IF k > Len(rows) THEN st
  ELSE iterrows(iterrow(st, columns, rows[k]), columns, rows, k + 1)

\* upload_users_csv without the check of the declared content type.
upload_users_csv_any_type(db, n, file) ==
  IF ~file.contents.decodes
  THEN Outcome(db, n, InputMalformed)
  ELSE IF ~HasNameAndAge(file.contents.columns)
  THEN Outcome(db, n, SchemaMismatch)
  ELSE LET st == iterrows(Loop(db, n), file.contents.columns,
                          file.contents.rows, 1)
       IN  Outcome(st.db, st.issued,
                   [kind |-> "report", status |-> 201,
                    added_users |-> st.added_count,
                    skipped_users |-> st.skipped_count,
                    skipped_names |-> st.skipped_names])

\* upload_users_csv that reads and parses the file before it looks at the
\* declared content type.
upload_users_csv_parse_first(db, n, file) ==
  IF ~file.contents.decodes
  THEN Outcome(db, n, InputMalformed)
  ELSE IF file.content_type # "text/csv"
  THEN Outcome(db, n, InvalidFileType)
  ELSE upload_users_csv_any_type(db, n, file)

upload_users_csv(db, n, file) ==
  IF file.content_type # "text/csv"
  THEN Outcome(db, n, InvalidFileType)
  ELSE IF ~file.contents.decodes
  THEN Outcome(db, n, InputMalformed)
  ELSE IF ~HasNameAndAge(file.contents.columns)
  THEN Outcome(db, n, SchemaMismatch)
  ELSE LET st == iterrows(Loop(db, n), file.contents.columns,
                          file.contents.rows, 1)
       IN  Outcome(st.db, st.issued,
                   [kind |-> "report", status |-> 201,
                    added_users |-> st.added_count,
                    skipped_users |-> st.skipped_count,
                    skipped_names |-> st.skipped_names])

(***************************************************************************)
(* GET /users/average_age                                                  *)
(*                                                                         *)
(* An average is kept in hundredths: 3250 is 32.5.                         *)
(***************************************************************************)
Lowercase == "abcdefghijklmnopqrstuvwxyz"

Uppercase == "ABCDEFGHIJKLMNOPQRSTUVWXYZ"

Digits == "0123456789"

\* The place of the character in the text, 0 when it is not in it.
Find(text, c) ==
  IF \E i \in 1..Len(text) : SubSeq(text, i, i) = c
  THEN CHOOSE i \in 1..Len(text) : SubSeq(text, i, i) = c
  ELSE 0

\* upper that leaves the character as it is: groups by the letter as typed.
upper_as_typed(c) == c

\* str.upper() of one character.
upper(c) ==
  IF Find(Lowercase, c) = 0 THEN c
  ELSE SubSeq(Uppercase, Find(Lowercase, c), Find(Lowercase, c))

\* df['name'].str[0].str.upper(): ok is FALSE for the empty name, whose
\* first character is NaN, a key that groupby drops.
group(name) ==
  IF Len(name) = 0 THEN [ok |-> FALSE, key |-> ""]
  ELSE [ok |-> TRUE, key |-> upper(Head(name))]

\* The number a text of digits spells: [ok, v], ok FALSE for any other text.
RECURSIVE ParseDigits(_, _)
ParseDigits(text, acc) ==
  IF Len(text) = 0 THEN [ok |-> TRUE, v |-> acc]
  ELSE IF Find(Digits, Head(text)) = 0 THEN [ok |-> FALSE, v |-> 0]
  ELSE ParseDigits(Tail(text), 10 * acc + Find(Digits, Head(text)) - 1)

\* to_numeric that fills what it cannot read with 0 (a fillna(0)).
to_numeric_fill0(age) ==
  LET text == ToString(age)
      bare == IF Head(text) = "\"" THEN SubSeq(text, 2, Len(text) - 1)
              ELSE text
      read == IF Len(bare) = 0 THEN [ok |-> FALSE, v |-> 0]
              ELSE ParseDigits(bare, 0)
  IN  [ok |-> TRUE, v |-> read.v]

\* pd.to_numeric(age, errors='coerce') of one value: a number, or a text
\* that spells one, is that number; any other text is NaN (ok FALSE).  The
\* value is read from its printed form, which puts a text in quotes.
to_numeric(age) ==
  LET text == ToString(age)
      bare == IF Head(text) = "\"" THEN SubSeq(text, 2, Len(text) - 1)
              ELSE text
  IN  IF Len(bare) = 0 THEN [ok |-> FALSE, v |-> 0]
      ELSE ParseDigits(bare, 0)

\* The rows of df.dropna(subset=['age']) that groupby puts in the group.
members(db, key) ==
  {k \in 1..Len(db) : /\ to_numeric(db[k].age).ok
                       /\ group(db[k].name).ok
                       /\ group(db[k].name).key = key}

\* The sum of the ages of the rows.
RECURSIVE age_sum(_, _)
age_sum(db, rows) ==
  IF rows = {} THEN 0
  ELSE LET k == CHOOSE k \in rows : TRUE
       IN  to_numeric(db[k].age).v + age_sum(db, rows \ {k})

\* A mean by integer division: the fraction is lost.
mean_floor(sum, count) == 100 * (sum \div count)

\* .mean().round(2) of count values of that sum, in hundredths, a tie going
\* to the even hundredth.
mean_round2(sum, count) ==
  LET q == (100 * sum) \div count
      r == (100 * sum) % count
  IN  IF 2 * r < count THEN q
      ELSE IF 2 * r > count THEN q + 1
      ELSE IF q % 2 = 0 THEN q ELSE q + 1

NoUsers ==
  [kind |-> "message", status |-> 200,
   message |-> "No users available to calculate average age."]

\* get_average_age_by_group without the check for the empty store.
get_average_age_by_group_unchecked(db, n) ==
  LET keys == {group(db[k].name).key :
                 k \in {i \in 1..Len(db) : /\ to_numeric(db[i].age).ok
                                           /\ group(db[i].name).ok}}
  IN  Outcome(db, n,
              [kind |-> "averages", status |-> 200,
               averages |->
                 [key \in keys |->
                    mean_round2(age_sum(db, members(db, key)),
                                Cardinality(members(db, key)))]])

\* get_average_age_by_group that drops the records it cannot read from
\* users_db itself (a dropna on the store, not on a copy).
get_average_age_by_group_dropping(db, n) ==
  LET kept == SelectSeq(db, LAMBDA r : to_numeric(r.age).ok)
  IN  IF Len(db) = 0 THEN Outcome(db, n, NoUsers)
      ELSE [get_average_age_by_group_unchecked(kept, n) EXCEPT !.db = kept]

get_average_age_by_group(db, n) ==
  IF Len(db) = 0 THEN Outcome(db, n, NoUsers)
  ELSE LET keys == {group(db[k].name).key :
                      k \in {i \in 1..Len(db) : /\ to_numeric(db[i].age).ok
                                                /\ group(db[i].name).ok}}
       IN  Outcome(db, n,
                   [kind |-> "averages", status |-> 200,
                    averages |->
                      [key \in keys |->
                         mean_round2(age_sum(db, members(db, key)),
                                     Cardinality(members(db, key)))]])

(***************************************************************************)
(* The requests of the model.                                              *)
(***************************************************************************)
ContentTypes == {"text/csv", "text/plain"}

\* Headers: the required one, and one that misses each required column by
\* the case of its first letter.
Headers == {<<"Name", "Age">>, <<"name", "Age">>, <<"Name", "age">>}

\* The rows of a DataFrame of the two columns: well-formed rows of one name
\* with two ages (an int64 and a float64, which int() truncates) and of a
\* second name, a row whose age is missing and a row whose name is missing.
Rows ==
  {<<StrCell("a"), IntCell(1)>>, <<StrCell("a"), FloatCell(25)>>,
   <<StrCell("A"), IntCell(1)>>, <<StrCell("a"), NaN>>, <<NaN, IntCell(1)>>}

SeqsUpTo(S, len) == UNION {[1..m -> S] : m \in 0..len}

Files ==
  {UploadFile(ct, Undecodable) : ct \in ContentTypes}
  \cup {UploadFile(ct, DataFrame(h, rs)) :
          ct \in ContentTypes, h \in Headers, rs \in SeqsUpTo(Rows, MaxRows)}

(***************************************************************************)
(* The state machine: one action per handler, on every request.  In Spec   *)
(* the requests come one after the other, so a handler runs from its       *)
(* first line to its return and no upload is ever left reading its file.   *)
(***************************************************************************)
\* The clients that can have an upload waiting at `await file.read()`.
Clients == {"c1", "c2"}

\* What reading holds for a client with no upload waiting.
Idle == [content_type |-> "", contents |-> Undecodable]

Init ==
  /\ users_db = <<>>
  /\ issued = 0
  /\ resp = [kind |-> "none", status |-> 0]
  /\ reading = [c \in Clients |-> Idle]

\* POST /users with {name, age}.  A request that would take uuid4 past the
\* ids of the model is left out (here and in UploadUsersCsv).
CreateUser ==
  \E name \in Names, age \in Ages :
    LET out == create_user(users_db, issued, name, age)
    IN  /\ out.issued <= MaxIds
        /\ users_db' = out.db
        /\ issued' = out.issued
        /\ resp' = out.resp
        /\ UNCHANGED reading

\* GET /users
GetUsers ==
  LET out == get_users(users_db, issued)
  IN  /\ users_db' = out.db
      /\ issued' = out.issued
      /\ resp' = out.resp
      /\ UNCHANGED reading

\* DELETE /users/{user_id}
DeleteUser ==
  \E user_id \in UserIds :
    LET out == delete_user(users_db, issued, user_id)
    IN  /\ users_db' = out.db
        /\ issued' = out.issued
        /\ resp' = out.resp
        /\ UNCHANGED reading

\* POST /users/upload_csv with a file
UploadUsersCsv ==
  \E file \in Files :
    LET out == upload_users_csv(users_db, issued, file)
    IN  /\ out.issued <= MaxIds
        /\ users_db' = out.db
        /\ issued' = out.issued
        /\ resp' = out.resp
        /\ UNCHANGED reading

\* GET /users/average_age
GetAverageAge ==
  LET out == get_average_age_by_group(users_db, issued)
  IN  /\ users_db' = out.db
      /\ issued' = out.issued
      /\ resp' = out.resp
      /\ UNCHANGED reading

Next ==
  CreateUser \/ GetUsers \/ DeleteUser \/ UploadUsersCsv \/ GetAverageAge

Spec == Init /\ [][Next]_vars

(***************************************************************************)
(* Concurrent requests.  The handlers are coroutines of one event loop, so *)
(* a handler runs alone from one await to the next.  The only await is     *)
(* `contents = await file.read()`, src/main.py:59: an upload runs up to    *)
(* it (the check of the content type), waits there with its file while     *)
(* other requests run, and then runs from there to its return.  create,    *)
(* delete and the rest have no await and are one step each.                *)
(***************************************************************************)
AsyncFiles ==
  {UploadFile("text/plain",
              DataFrame(<<"Name", "Age">>, <<<<StrCell("a"), IntCell(1)>>>>)),
   UploadFile("text/csv", Undecodable),
   UploadFile("text/csv",
              DataFrame(<<"name", "Age">>, <<<<StrCell("a"), IntCell(1)>>>>)),
   UploadFile("text/csv",
              DataFrame(<<"Name", "Age">>, <<<<StrCell("a"), IntCell(1)>>>>)),
   UploadFile("text/csv",
              DataFrame(<<"Name", "Age">>,
                        <<<<StrCell("A"), IntCell(1)>>,
                          <<StrCell("a"), FloatCell(25)>>>>))}

\* The rest of the handler run on the store as it was empty, its records
\* then written next to those of the store: a duplicate check that does
\* not see what the other requests stored.
upload_users_csv_resume_stale(db, n, file) ==
  LET out == upload_users_csv(<<>>, n, file)
  IN  Outcome(db \o out.db, out.issued, out.resp)

\* upload_users_csv from the return of `await file.read()` to its end,
\* src/main.py:59-100.
upload_users_csv_resume(db, n, file) ==
  IF ~file.contents.decodes
  THEN Outcome(db, n, InputMalformed)
  ELSE IF ~HasNameAndAge(file.contents.columns)
  THEN Outcome(db, n, SchemaMismatch)
  ELSE LET st == iterrows(Loop(db, n), file.contents.columns,
                          file.contents.rows, 1)
       IN  Outcome(st.db, st.issued,
                   [kind |-> "report", status |-> 201,
                    added_users |-> st.added_count,
                    skipped_users |-> st.skipped_count,
                    skipped_names |-> st.skipped_names])

\* POST /users/upload_csv up to the await: a file of another content type
\* is refused at once, any other waits for its contents.
UploadBegin ==
  \E c \in Clients, file \in AsyncFiles :
    /\ reading[c] = Idle
    /\ IF file.content_type # "text/csv"
       THEN /\ resp' = InvalidFileType
            /\ UNCHANGED reading
       ELSE /\ reading' = [reading EXCEPT ![c] = file]
            /\ UNCHANGED resp
    /\ UNCHANGED <<users_db, issued>>

\* The upload of a client goes on from the await to its return.
UploadResume ==
  \E c \in Clients :
    /\ reading[c] # Idle
    /\ LET out == upload_users_csv_resume(users_db, issued, reading[c])
       IN  /\ out.issued <= MaxIds
           /\ users_db' = out.db
           /\ issued' = out.issued
           /\ resp' = out.resp
           /\ reading' = [reading EXCEPT ![c] = Idle]

NextAsync == CreateUser \/ DeleteUser \/ UploadBegin \/ UploadResume

SpecAsync == Init /\ [][NextAsync]_vars

(***************************************************************************)
(* The store as the tests set it up, src/test_main.py:156-183: the four    *)
(* users of test_get_average_age, and records written into users_db        *)
(* directly, past the validation of UserCreate, with an age that is text.  *)
(* The handlers are those of Spec, on requests with more names: the empty  *)
(* name, which UserCreate accepts as a str, three names of one group and   *)
(* one of a second.                                                        *)
(***************************************************************************)
InjectedNames == {"", "a", "A", "ab", "b"}

\* test_get_average_age: four creates on the empty store.
ExampleStore ==
  <<User(1, "Liam", 22), User(2, "Linda", 28), User(3, "Mason", 35),
    User(4, "Mia", 30)>>

InitInjected ==
  /\ users_db \in {<<>>, ExampleStore}
  /\ issued = Len(users_db)
  /\ resp = [kind |-> "none", status |-> 0]
  /\ reading = [c \in Clients |-> Idle]

\* users_db["manual2"] = {"id": "manual2", "name": ..., "age": "invalid_age"}:
\* a record under a key of its own, numbered like the ids of uuid4; no
\* request is made and there is no response.
Inject ==
  \E name \in {"b"} :
    /\ uuid4(issued) <= MaxIds
    /\ users_db' = put(users_db, User(uuid4(issued), name, "invalid_age"))
    /\ issued' = uuid4(issued)
    /\ resp' = [kind |-> "none", status |-> 0]
    /\ UNCHANGED reading

\* POST /users with {name, age}, the name any str.
CreateAnyUser ==
  \E name \in InjectedNames, age \in Ages :
    LET out == create_user(users_db, issued, name, age)
    IN  /\ out.issued <= MaxIds
        /\ users_db' = out.db
        /\ issued' = out.issued
        /\ resp' = out.resp
        /\ UNCHANGED reading

NextInjected ==
  Inject \/ CreateAnyUser \/ GetUsers \/ DeleteUser \/ GetAverageAge

SpecInjected == InitInjected /\ [][NextInjected]_vars

(***************************************************************************)
(* The claims.  A handler reads users_db and issued only, so what a claim  *)
(* says of a handler is stated of its outcome on every request of the      *)
(* model, from the store of every reachable state.                         *)
(***************************************************************************)

\* C1: in every reachable state no two records of the store have the same
\* name (compared exactly, case-sensitively).
C1_UniqueNames ==
  \A i, j \in 1..Len(users_db) :
    users_db[i].name = users_db[j].name => i = j

\* An import added one row and skipped one, and the store holds two records.
C1_Witness ==
  /\ Len(users_db) = 2
  /\ resp.kind = "report"
  /\ resp.added_users = 1
  /\ resp.skipped_users = 1

\* C2: create with a name no stored record has succeeds (201): the store
\* afterwards is the store before plus exactly one record, which carries the
\* name and the age of the request and an id no stored record had, and that
\* record is the response.
C2_CreateNewName ==
  \A name \in Names, age \in Ages :
    name \notin names(users_db) =>
      LET out == create_user(users_db, issued, name, age)
      IN  /\ out.resp.kind = "user"
          /\ out.resp.status = 201
          /\ out.resp.user.name = name
          /\ out.resp.user.age = age
          /\ out.resp.user.id \notin ids(users_db)
          /\ Len(out.db) = Len(users_db) + 1
          /\ Range(out.db) = Range(users_db) \cup {out.resp.user}

\* A create has just added a second record to the store.
C2_Witness ==
  /\ resp.kind = "user"
  /\ Len(users_db) = 2
  /\ users_db[2] = resp.user

\* C3: create with the name of a stored record fails with DuplicateName
\* (400) for every age, and leaves the store as it was.
C3_CreateDuplicate ==
  \A name \in names(users_db), age \in Ages :
    LET out == create_user(users_db, issued, name, age)
    IN  /\ out.resp = DuplicateName(name)
        /\ out.db = users_db

\* A create has just been refused for the name "a", which the store holds.
C3_Witness ==
  /\ resp = DuplicateName("a")
  /\ "a" \in names(users_db)

\* The ids that reached the store and are no longer in it.
Deleted(db, n) == (1..n) \ ids(db)

\* C4, the step: delete of a stored id succeeds (204), removes that record
\* and leaves every other record as it was and where it was; a list then
\* does not return the record, and a create of its name succeeds.
C4_DeleteStep ==
  \A user_id \in ids(users_db) :
    LET out == delete_user(users_db, issued, user_id)
        rec == CHOOSE r \in Range(users_db) : r.id = user_id
    IN  /\ out.resp = [kind |-> "none", status |-> 204]
        /\ out.db = SelectSeq(users_db, LAMBDA r : r # rec)
        /\ Len(out.db) = Len(users_db) - 1
        /\ rec \notin Range(get_users(out.db, out.issued).resp.users)
        /\ \A age \in Ages :
             create_user(out.db, out.issued, rec.name, age).resp.kind = "user"

\* C4: the step above in every reachable state; and in every later step a
\* deleted id stays out of the store, and no list returns a record with it.
C4_Delete ==
  /\ []C4_DeleteStep
  /\ [][/\ Deleted(users_db, issued) \subseteq Deleted(users_db', issued')
        /\ resp'.kind = "users" =>
             \A k \in 1..Len(resp'.users) :
               resp'.users[k].id \notin Deleted(users_db, issued)]_vars

\* A delete has just removed one record of two, and the other is left.
C4_Witness ==
  /\ resp = [kind |-> "none", status |-> 204]
  /\ Len(users_db) = 1
  /\ Deleted(users_db, issued) # {}

\* C5: delete of an id the store does not hold, one never handed out or one
\* deleted before, fails with NotFound (404) and leaves the store as it was;
\* so a second delete of an id fails.
C5_DeleteUnknown ==
  /\ \A user_id \in UserIds \ ids(users_db) :
       LET out == delete_user(users_db, issued, user_id)
       IN  out.resp = NotFound /\ out.db = users_db
  /\ \A user_id \in ids(users_db) :
       LET once == delete_user(users_db, issued, user_id)
           twice == delete_user(once.db, once.issued, user_id)
       IN  twice.resp = NotFound /\ twice.db = once.db

\* A delete has just been refused while an id deleted before is out of the
\* store.
C5_Witness ==
  /\ resp = NotFound
  /\ Deleted(users_db, issued) # {}
  /\ users_db # <<>>

(***************************************************************************)
(* The claims on the CSV import.  What they say of a row is stated from    *)
(* the cells of the row, the store before the import and the rows before   *)
(* it, and compared with what upload_users_csv leaves.                     *)
(***************************************************************************)

\* The files that pass the three checks before the rows are processed.
Imports ==
  {file \in Files : /\ file.content_type = "text/csv"
                    /\ file.contents.decodes
                    /\ "Name" \in Range(file.contents.columns)
                    /\ "Age" \in Range(file.contents.columns)}

NameOf(file, k) == Cell(file.contents.columns, file.contents.rows[k], "Name")

AgeOf(file, k) == Cell(file.contents.columns, file.contents.rows[k], "Age")

\* The row has an age that is a number and a name that is text.
WellFormed(file, k) ==
  /\ AgeOf(file, k).t \in {"int", "float"}
  /\ NameOf(file, k).t = "str"

\* The integer a numeric age cell stands for (a float loses its fraction).
AgeValue(cell) == IF cell.t = "float" THEN cell.n \div 10 ELSE cell.n

\* The row is well-formed, and its name is neither in the store before the
\* import nor in a well-formed row before it.
Accepted(db, file, k) ==
  /\ WellFormed(file, k)
  /\ NameOf(file, k).s \notin names(db)
  /\ \A j \in 1..(k - 1) :
       WellFormed(file, j) => NameOf(file, j).s # NameOf(file, k).s

\* The indices of the rows in input order, and those accepted or skipped.
RowIndices(file) == [k \in 1..Len(file.contents.rows) |-> k]

AcceptedRows(db, file) ==
  SelectSeq(RowIndices(file), LAMBDA k : Accepted(db, file, k))

SkippedRows(db, file) ==
  SelectSeq(RowIndices(file), LAMBDA k : ~Accepted(db, file, k))

\* How often x occurs in the sequence.
Occurrences(seq, x) == Cardinality({k \in 1..Len(seq) : seq[k] = x})

\* The state a GET /users leaves.  It is enabled in every state and changes
\* neither users_db nor issued, so every reachable store is reached with
\* this response; the claims that range over all files are checked there,
\* once for each store.
Listed == resp.kind = "users"

\* C6: when the store holds a name and a row of the CSV with a well-formed
\* age carries it, the store after the import holds exactly one record of
\* that name, the one it held before (same id, same age), and every row of
\* that name is counted as skipped and listed under the name; and importing
\* a file a second time adds nothing and leaves the store as it was.
C6_ImportIdempotent ==
  Listed =>
    \A file \in Imports :
      LET out == upload_users_csv(users_db, issued, file)
          again == upload_users_csv(out.db, out.issued, file)
          rows == file.contents.rows
      IN  /\ \A k \in 1..Len(rows) :
               (WellFormed(file, k) /\ NameOf(file, k).s \in names(users_db)) =>
                 LET name == NameOf(file, k).s
                     same(db) == {r \in Range(db) : r.name = name}
                 IN  /\ same(out.db) = same(users_db)
                     /\ Cardinality(same(out.db)) = 1
                     /\ Occurrences(out.resp.skipped_names, name)
                          = Cardinality({j \in 1..Len(rows) :
                                          NameOf(file, j) = StrCell(name)})
                     /\ out.resp.skipped_users
                          >= Occurrences(out.resp.skipped_names, name)
          /\ again.resp.kind = "report"
          /\ again.resp.added_users = 0
          /\ again.resp.skipped_users = Len(rows)
          /\ again.db = out.db

\* An import of two rows of the name "A" and the age 1 has added nothing
\* and skipped both, and the store holds "A" with the age 2.
C6_Witness ==
  /\ resp.kind = "report"
  /\ resp.added_users = 0
  /\ resp.skipped_names = <<"A", "A">>
  /\ \E r \in Range(users_db) : r.name = "A" /\ r.age = 2

C8_InvalidFileType ==
  Listed =>
    \A file \in Files :
      file.content_type # "text/csv" =>
        LET out == upload_users_csv(users_db, issued, file)
        IN  /\ out.resp = InvalidFileType
            /\ out.db = users_db
            /\ out.issued = issued

\* An upload has just been refused for its content type, with a record
\* stored.
C8_Witness ==
  /\ resp = InvalidFileType
  /\ users_db # <<>>

\* C9: an import that passes the header check returns a report (201), and
\* the store afterwards is the store before, unchanged, followed by one new
\* record for each accepted row, in row order, with the row's name and age
\* and an id of its own; so no other row reaches the store, in particular
\* none whose age does not parse, and no accepted row is undone.
C9_NoRollback ==
  Listed =>
    \A file \in Imports :
      LET out == upload_users_csv(users_db, issued, file)
          acc == AcceptedRows(users_db, file)
          old == Len(users_db)
      IN  /\ out.resp.kind = "report"
          /\ out.resp.status = 201
          /\ Len(out.db) = old + Len(acc)
          /\ SubSeq(out.db, 1, old) = users_db
          /\ \A m \in 1..Len(acc) :
               /\ out.db[old + m].name = NameOf(file, acc[m]).s
               /\ out.db[old + m].age = AgeValue(AgeOf(file, acc[m]))
          /\ Cardinality(ids(out.db)) = Len(out.db)

\* An import has added one row and skipped a row of the name "a", which the
\* store does not hold: a row that failed beside a row that was accepted.
C9_Witness ==
  /\ resp.kind = "report"
  /\ resp.added_users = 1
  /\ resp.skipped_names = <<"a">>
  /\ names(users_db) = {"A"}

\* C10: the skipped names of a report are the raw names of the skipped rows
\* (the rows not accepted, for a duplicate name or for a failure), one for
\* each, in the order of the rows in the input.
C10_SkippedOrder ==
  Listed =>
    \A file \in Imports :
      LET out == upload_users_csv(users_db, issued, file)
          skipped == SkippedRows(users_db, file)
      IN  out.resp.skipped_names
            = [m \in 1..Len(skipped) |-> PyStr(NameOf(file, skipped[m]))]

\* An import has skipped a row for its missing name and then a row for the
\* duplicate name "A".
C10_Witness ==
  /\ resp.kind = "report"
  /\ resp.skipped_names = <<"nan", "A">>
  /\ resp.added_users = 0

(***************************************************************************)
(* The claims on the aggregation, stated of SpecInjected.  What the claim  *)
(* calls a numeric age, the group of a name and the mean of a group are    *)
(* written here on their own, without the operators of the handler.        *)
(***************************************************************************)

\* The age is a number: the one age of the model that is not is the text
\* "invalid_age".
IsNumber(age) == ToString(age) # ToString("invalid_age")

\* K is the first character c, uppercased.
IsUpperOf(K, c) ==
  \/ \E i \in 1..Len(Lowercase) :
       SubSeq(Lowercase, i, i) = c /\ SubSeq(Uppercase, i, i) = K
  \/ /\ K = c
     /\ \A i \in 1..Len(Lowercase) : SubSeq(Lowercase, i, i) # c

\* The records of the store with a numeric age and a name that begins with
\* a character whose uppercase is K.
GroupOf(db, K) ==
  {k \in 1..Len(db) : /\ IsNumber(db[k].age)
                       /\ Len(db[k].name) > 0
                       /\ IsUpperOf(K, Head(db[k].name))}

RECURSIVE Total(_, _)
Total(db, S) ==
  IF S = {} THEN 0
  ELSE LET k == CHOOSE k \in S : TRUE
       IN  db[k].age + Total(db, S \ {k})

\* v hundredths is sum / count rounded to two decimal digits: no hundredth
\* is nearer to the quotient.
IsRounded2(v, sum, count) ==
  LET d == v * count - 100 * sum
  IN  2 * (IF d < 0 THEN 0 - d ELSE d) <= count

\* The state a GET /users/average_age leaves.  Like GET /users it is enabled
\* in every state and changes neither users_db nor issued, so every
\* reachable store is reached with this response; what the claims say of
\* the result on a store is checked there, once for each store.
Averaged == resp.kind \in {"message", "averages"}

\* C11: the average-age operation answers with the no-users message if and
\* only if the store is empty; on a store that is not empty it answers with
\* a mapping, which is empty when no record has a numeric age, and on the
\* empty store never with a mapping.
C11_NoUsersIffEmpty ==
  /\ resp.kind = "message" => Len(users_db) = 0
  /\ resp.kind = "averages" => Len(users_db) > 0
  /\ Averaged =>
       LET out == get_average_age_by_group(users_db, issued)
       IN  /\ out.resp.kind \in {"message", "averages"}
           /\ out.resp.kind = "message" <=> Len(users_db) = 0
           /\ out.resp.kind = "message" => out.resp = NoUsers
           /\ (Len(users_db) > 0 /\ \A k \in 1..Len(users_db) :
                                       ~IsNumber(users_db[k].age))
                => DOMAIN out.resp.averages = {}

\* The average-age operation has answered with an empty mapping on a store
\* that holds a record.
C11_Witness ==
  /\ resp.kind = "averages"
  /\ DOMAIN resp.averages = {}
  /\ Len(users_db) > 0

\* C12: on a store that is not empty the keys of the average-age result are
\* exactly the uppercased first characters of the names of the records with
\* a numeric age: a record with an age that is not a number raises no error
\* and adds no key, and a group with no numeric age is not in the result.
C12_KeySet ==
  (Averaged /\ Len(users_db) > 0) =>
    LET out == get_average_age_by_group(users_db, issued)
    IN  /\ out.resp.kind = "averages"
        /\ out.resp.status = 200
        /\ \A K \in DOMAIN out.resp.averages : GroupOf(users_db, K) # {}
        /\ \A k \in 1..Len(users_db) :
             (IsNumber(users_db[k].age) /\ Len(users_db[k].name) > 0)
               => \E K \in DOMAIN out.resp.averages :
                    IsUpperOf(K, Head(users_db[k].name))

\* The result has the one key "A", from a record of the name "a", and the
\* store holds a record of the name "b" whose age is not a number.
C12_Witness ==
  /\ resp.kind = "averages"
  /\ DOMAIN resp.averages = {"A"}
  /\ \E k \in 1..Len(users_db) :
       users_db[k].name = "b" /\ ~IsNumber(users_db[k].age)
  /\ \E k \in 1..Len(users_db) :
       users_db[k].name = "a" /\ IsNumber(users_db[k].age)

\* C13: the value of every key K of the average-age result is the
\* arithmetic mean, rounded to two decimal digits, of the ages of all the
\* records with a numeric age whose name begins with a character whose
\* uppercase is K; the users Liam 22, Linda 28, Mason 35 and Mia 30 give
\* L 25.0 and M 32.5.  Values are in hundredths.
C13_GroupMean ==
  LET out == get_average_age_by_group(users_db, issued)
  IN  /\ (Averaged /\ Len(users_db) > 0) =>
           \A K \in DOMAIN out.resp.averages :
             /\ GroupOf(users_db, K) # {}
             /\ IsRounded2(out.resp.averages[K],
                           Total(users_db, GroupOf(users_db, K)),
                           Cardinality(GroupOf(users_db, K)))
      /\ (Averaged /\ Len(users_db) = 4
             /\ \A k \in 1..4 : users_db[k] = ExampleStore[k])
           => /\ DOMAIN out.resp.averages = {"L", "M"}
              /\ out.resp.averages["L"] = 2500
              /\ out.resp.averages["M"] = 3250

\* The result holds the mean 1.33 of a group of three records, of names
\* that begin with "a" and with "A".
C13_Witness ==
  /\ resp.kind = "averages"
  /\ DOMAIN resp.averages = {"A"}
  /\ resp.averages["A"] = 133
  /\ {"a", "A"} \subseteq {users_db[k].name : k \in 1..Len(users_db)}

\* C14: every record that enters the store by a create or by an import has
\* a name that is not empty: a create request with the empty name adds no
\* record, and no row of a CSV adds a record of the empty name.
C14_NonEmptyNames ==
  /\ \A name \in InjectedNames, age \in Ages :
       LET out == create_user(users_db, issued, name, age)
       IN  Len(out.db) > Len(users_db) => Len(name) > 0
  /\ \A k \in 1..Len(users_db) : Len(users_db[k].name) > 0

\* The part of C14 on the import: no row of a CSV adds a record of the
\* empty name, an empty cell being read as NaN and its row skipped.
C14_ImportNonEmpty ==
  Listed =>
    \A file \in Imports :
      LET out == upload_users_csv(users_db, issued, file)
      IN  \A k \in (Len(users_db) + 1)..Len(out.db) :
            Len(out.db[k].name) > 0

(***************************************************************************)
(* The claims on the life of a record and on the import, stated of Spec.   *)
(***************************************************************************)

\* The record the store holds under the id.
RecordOf(db, id) == db[CHOOSE k \in 1..Len(db) : db[k].id = id]

\* C15: a record is never changed in place: in every step the name and the
\* age under an id that stays in the store stay the same, whatever the
\* operation (create, delete, import, list, average-age); an id enters the
\* store only by a create that succeeds or by the accepted rows of an
\* import, and is then an id never handed out before; an id leaves the
\* store only by the delete of that id.
C15_Lifecycle ==
  [][LET entered == ids(users_db') \ ids(users_db)
         left == ids(users_db) \ ids(users_db')
     IN  /\ ids(users_db) \subseteq 1..issued
         /\ \A id \in ids(users_db) \cap ids(users_db') :
              RecordOf(users_db', id) = RecordOf(users_db, id)
         /\ entered \subseteq (issued + 1)..issued'
         /\ entered # {} =>
              \/ /\ resp'.kind = "user"
                 /\ resp'.status = 201
                 /\ entered = {resp'.user.id}
              \/ /\ resp'.kind = "report"
                 /\ resp'.added_users = Cardinality(entered)
         /\ left # {} =>
              /\ resp' = [kind |-> "none", status |-> 204]
              /\ Cardinality(left) = 1
              /\ entered = {}
         /\ resp'.kind \in {"users", "message", "averages", "error"} =>
              users_db' = users_db
         /\ \A user_id \in UserIds :
              ids(users_db) \ ids(delete_user(users_db, issued, user_id).db)
                \subseteq {user_id}]_vars

\* A record has stayed in the store through the delete of another and an
\* import that added a row next to it.
C15_Witness ==
  /\ resp.kind = "report"
  /\ resp.added_users = 1
  /\ Len(users_db) = 2
  /\ users_db[1].id < users_db[2].id - 1

\* The rows of the file that carry the name, in a cell that is text.
RowsOf(file, name) ==
  {k \in 1..Len(file.contents.rows) : NameOf(file, k) = StrCell(name)}

\* C16: the duplicate check of a row is made against the store as it is
\* when the row is reached, with the rows of the same file accepted before
\* it: when a name the store does not hold is in well-formed rows of one
\* CSV, the first of them is added (the store then holds one record of the
\* name, with the age of that row) and every other row of the name is
\* skipped, the name listed once for each.
C16_SameFileDuplicates ==
  Listed =>
    \A file \in Imports, name \in Names \ names(users_db) :
      LET out == upload_users_csv(users_db, issued, file)
          good == {k \in RowsOf(file, name) : WellFormed(file, k)}
          first == CHOOSE k \in good : \A j \in good : k <= j
          held == {k \in 1..Len(out.db) : out.db[k].name = name}
      IN  good # {} =>
            /\ Cardinality(held) = 1
            /\ \A k \in held :
                 /\ out.db[k].age = AgeValue(AgeOf(file, first))
                 /\ out.db[k].id \notin ids(users_db)
            /\ Occurrences(out.resp.skipped_names, name)
                 = Cardinality(RowsOf(file, name)) - 1
            /\ out.resp.skipped_users >= Cardinality(good) - 1

\* An import into the empty store has added a row of the name "A" and
\* skipped a second row of that name.
C16_Witness ==
  /\ resp.kind = "report"
  /\ resp.added_users = 1
  /\ resp.skipped_names = <<"A">>
  /\ names(users_db) = {"A"}
  /\ issued = 1

\* C17: the checks of an upload come in a fixed order, all before any row:
\* the declared content type (InvalidFileType), then decoding and parsing
\* (InputMalformed), then the header (SchemaMismatch); an upload that fails
\* several reports the first of them, and an upload that ends in one of the
\* three errors leaves the store as it was.
C17_GateOrder ==
  Listed =>
    \A file \in Files :
      LET out == upload_users_csv(users_db, issued, file)
          typed == file.content_type = "text/csv"
          parsed == file.contents.decodes
          headed == /\ "Name" \in Range(file.contents.columns)
                    /\ "Age" \in Range(file.contents.columns)
      IN  /\ ~typed => out.resp = InvalidFileType
          /\ (typed /\ ~parsed) => out.resp = InputMalformed
          /\ (typed /\ parsed /\ ~headed) => out.resp = SchemaMismatch
          /\ (typed /\ parsed /\ headed) => out.resp.kind = "report"
          /\ out.resp.kind = "error" =>
               /\ out.resp \in {InvalidFileType, InputMalformed,
                                SchemaMismatch}
               /\ out.resp.status = 400
               /\ out.db = users_db
               /\ out.issued = issued

\* An upload has been refused as malformed while the store holds a record.
C17_Witness ==
  /\ resp = InputMalformed
  /\ Len(users_db) > 0

\* C18: for every CSV that passes the header check, added + skipped is the
\* number of data rows, the list of skipped names is as long as the skipped
\* count, and the store grows by exactly the added count: each row is
\* counted once, also a row that is malformed and carries a stored name.
C18_Accounting ==
  Listed =>
    \A file \in Imports :
      LET out == upload_users_csv(users_db, issued, file)
      IN  /\ out.resp.added_users + out.resp.skipped_users
               = Len(file.contents.rows)
          /\ Len(out.resp.skipped_names) = out.resp.skipped_users
          /\ Len(out.db) = Len(users_db) + out.resp.added_users
          /\ out.resp.added_users >= 0
          /\ out.resp.skipped_users >= 0

\* An import of two rows into the empty store has added both.
C18_Witness ==
  /\ resp.kind = "report"
  /\ resp.added_users = 2
  /\ resp.skipped_users = 0
  /\ Len(users_db) = 2
  /\ issued = 2

(***************************************************************************)
(* The claim on concurrent requests, stated of SpecAsync.                  *)
(***************************************************************************)

\* C19: with requests interleaved at the one await of the handlers (the
\* read of the uploaded file, before any read of the store), every
\* reachable state has as many names, and as many ids, as records: no
\* interleaving of creates, deletes and imports stores a name twice.  An
\* upload that waits has passed the check of its content type.
C19_UniqueNamesConcurrent ==
  /\ Cardinality({users_db[k].name : k \in 1..Len(users_db)}) = Len(users_db)
  /\ Cardinality({users_db[k].id : k \in 1..Len(users_db)}) = Len(users_db)
  /\ \A c \in Clients :
       reading[c] # Idle => reading[c].content_type = "text/csv"

\* While the upload of one client waits with a row of the name "a", the
\* import of another has skipped its row of that name, which the store
\* holds.
C19_Witness ==
  /\ resp.kind = "report"
  /\ resp.added_users = 0
  /\ resp.skipped_names = <<"a">>
  /\ \E k \in 1..Len(users_db) : users_db[k].name = "a"
  /\ \E c \in Clients :
       /\ reading[c] # Idle
       /\ reading[c].contents.decodes
       /\ \E k \in 1..Len(reading[c].contents.rows) :
            reading[c].contents.rows[k][1] = StrCell("a")

(***************************************************************************)
(* The claim on the two reading operations, stated of SpecInjected.        *)
(***************************************************************************)

\* The two sequences hold the same records (id, name and age) in the same
\* places.
SameRecords(db1, db2) ==
  /\ Len(db1) = Len(db2)
  /\ \A k \in 1..Len(db1) :
       /\ db1[k].id = db2[k].id
       /\ db1[k].name = db2[k].name
       /\ ToString(db1[k].age) = ToString(db2[k].age)

====
